---------------------------- MODULE Spec2Model ----------------------------
(***************************************************************************)
(* MyCareerAssist: the heuristic scoring and matching engine.              *)
(*                                                                         *)
(* src/MyCareerAssist.py  calculate_ats_score                              *)
(* src/ai_helpers.py      ResumOptimizer, CoverLetterGenerator, JobMatcher *)
(*                                                                         *)
(* A text is a sequence of characters (one-character strings); the regular *)
(* expressions of the source are evaluated character by character, with    *)
(* Python's meaning of \b, \s, \d, [A-Z], [a-z] and re.IGNORECASE.  The    *)
(* letter a-umlaut of 'Universität' is the single character "a-umlaut".    *)
(* Every function of the engine is pure: each specification draws the      *)
(* arguments of one function in its initial states and its action is the   *)
(* call.                                                                   *)
(***************************************************************************)
EXTENDS Integers, Sequences, FiniteSets, TLC

VARIABLES
    pc,                \* "start" before the call, "done" after it returned
    resume_text,       \* argument: the resume text
    job_description,   \* argument: the job posting text
    candidate_profile, \* argument: the candidate profile
    template,          \* argument of generate_cover_letter
    name,              \* argument of generate_cover_letter
    position,          \* argument of generate_cover_letter
    experience,        \* argument of generate_cover_letter
    score_metrics,     \* calculate_ats_score: the dictionary it returns
    match_score,       \* calculate_job_match_score: what it returns or raises
    suggestions,       \* get_weak_verbs: the list it returns
    missing,           \* get_missing_keywords: the list it returns
    cover_letter,      \* generate_cover_letter: the text it returns
    resume_profile,    \* extract_candidate_profile: the dictionary it returns
    recommendations,   \* generate_ats_recommendations: the dictionary it returns
    query,             \* argument of fetch_jobs_arbeitsagentur
    location,          \* argument of fetch_jobs_arbeitsagentur
    radius,            \* argument of fetch_jobs_arbeitsagentur
    requests_get,      \* fetch_jobs_arbeitsagentur: the calls of requests.get
    response,          \* fetch_jobs_arbeitsagentur: what requests.get gave
    jobs,              \* fetch_jobs_arbeitsagentur: what it returns or raises
    st_error           \* fetch_jobs_arbeitsagentur: the messages of st.error

vars == <<pc, resume_text, job_description, candidate_profile, template, name,
          position, experience, score_metrics, match_score, suggestions,
          missing, cover_letter, resume_profile, recommendations, query, location,
          radius, requests_get, response, jobs, st_error>>

\* the arguments of generate_cover_letter
letter_args == <<template, name, position, experience>>

\* the arguments and the effects of fetch_jobs_arbeitsagentur
fetch_vars == <<query, location, radius, requests_get, response, jobs, st_error>>

NotCalled == "not called"

\* fetch_jobs_arbeitsagentur takes no part
FetchNotCalled ==
    /\ query = NotCalled
    /\ location = NotCalled
    /\ radius = NotCalled
    /\ requests_get = NotCalled
    /\ response = NotCalled
    /\ jobs = NotCalled
    /\ st_error = NotCalled

-----------------------------------------------------------------------------
(* Characters and strings *)

UpperChars == <<"A", "B", "C", "D", "E", "F", "G", "H", "I", "J", "K", "L", "M",
                "N", "O", "P", "Q", "R", "S", "T", "U", "V", "W", "X", "Y", "Z",
                "A-umlaut">>
LowerChars == <<"a", "b", "c", "d", "e", "f", "g", "h", "i", "j", "k", "l", "m",
                "n", "o", "p", "q", "r", "s", "t", "u", "v", "w", "x", "y", "z",
                "a-umlaut">>
DigitChars == <<"0", "1", "2", "3", "4", "5", "6", "7", "8", "9">>

Range(s) == {s[i] : i \in 1..Len(s)}

UpperSet == Range(UpperChars)
LowerSet == Range(LowerChars)
DigitSet == Range(DigitChars)
\* \w of a Python 3 str pattern: letters, digits and the underscore
WordCharSet == UpperSet \cup LowerSet \cup DigitSet \cup {"_"}
\* \s
SpaceSet == {" ", "\n", "\t"}
LowerTable == [c \in UpperSet |->
                 LowerChars[CHOOSE i \in 1..Len(UpperChars) : UpperChars[i] = c]]

IsUpper(c) == c \in UpperSet
IsLower(c) == c \in LowerSet
IsDigit(c) == c \in DigitSet
IsWordChar(c) == c \in WordCharSet
IsSpace(c) == c \in SpaceSet

\* str.lower() of one character
LowerChar(c) == IF c \in UpperSet THEN LowerTable[c] ELSE c

\* str.lower()
lower(s) == [i \in 1..Len(s) |-> LowerChar(s[i])]

Min(a, b) == IF a <= b THEN a ELSE b
Max(a, b) == IF a >= b THEN a ELSE b

\* s[from..to] (1-based, inclusive)
Slice(s, from, to) == [i \in 1..(to - from + 1) |-> s[from + i - 1]]

\* the text of a sequence of pieces
RECURSIVE Concat(_)
Concat(pieces) ==
    IF pieces = <<>> THEN <<>> ELSE Head(pieces) \o Concat(Tail(pieces))

\* all sequences of at most n elements of P
SeqsUpTo(P, n) == UNION {[1..k -> P] : k \in 0..n}

\* n copies of the character c
Repeat(c, n) == [i \in 1..n |-> c]

-----------------------------------------------------------------------------
(* Regular-expression primitives *)

\* \b between the characters at p and p+1 (p = 0: start, p = Len: end)
WordBoundary(text, p) ==
    LET before == p >= 1 /\ IsWordChar(text[p])
        after  == p + 1 <= Len(text) /\ IsWordChar(text[p + 1])
    IN  before # after

\* the literal lit matches text at position i
LitAt(text, i, lit, ignorecase) ==
    /\ i + Len(lit) - 1 <= Len(text)
    /\ \A k \in 1..Len(lit) :
          IF ignorecase THEN LowerChar(text[i + k - 1]) = LowerChar(lit[k])
          ELSE text[i + k - 1] = lit[k]

\* \b(w1|w2|...)\b matches text at position i with alternative w
WordAt(text, i, w, ignorecase) ==
    /\ WordBoundary(text, i - 1)
    /\ LitAt(text, i, w, ignorecase)
    /\ WordBoundary(text, i + Len(w) - 1)

\* re.search(r'\b(w1|w2|...)\b', text, flags) is not None
re_search_word(words, text, ignorecase) ==
    \E i \in 1..Len(text) : \E w \in Range(words) : WordAt(text, i, w, ignorecase)

\* len(text.split(sep)) for a one-character separator
split_count(text, sep) == Cardinality({i \in 1..Len(text) : text[i] = sep}) + 1

SetMin(S) == CHOOSE x \in S : \A y \in S : x <= y

\* re.findall(r'\b(w1|w2|...)\b', text, flags): the matches as written in
\* the text, leftmost first, the scan resuming after each match
RECURSIVE re_findall_word_from(_, _, _, _)
re_findall_word_from(words, text, ignorecase, i) ==
    IF i > Len(text) THEN <<>>
    ELSE LET hits == {k \in 1..Len(words) : WordAt(text, i, words[k], ignorecase)}
         IN  IF hits = {} THEN re_findall_word_from(words, text, ignorecase, i + 1)
             ELSE LET w == words[SetMin(hits)]
                  IN  <<Slice(text, i, i + Len(w) - 1)>>
                      \o re_findall_word_from(words, text, ignorecase, i + Len(w))

re_findall_word(words, text, ignorecase) ==
    re_findall_word_from(words, text, ignorecase, 1)

\* lit in text
Contains(text, lit) == \E i \in 1..(Len(text) + 1) : LitAt(text, i, lit, FALSE)

\* the last position of the longest run of characters of class from i on
RunEnd(text, i, class) ==
    CHOOSE j \in i..Len(text) :
        /\ \A k \in i..j : text[k] \in class
        /\ j = Len(text) \/ text[j + 1] \notin class

\* int(digits)
RECURSIVE int(_)
int(digits) ==
    IF digits = <<>> THEN 0
    ELSE 10 * int(SubSeq(digits, 1, Len(digits) - 1))
         + (CHOOSE v \in 0..9 : DigitChars[v + 1] = digits[Len(digits)])

\* str(n), n >= 0
RECURSIVE str(_)
str(n) == IF n < 10 THEN <<DigitChars[n + 1]>>
          ELSE str(n \div 10) \o <<DigitChars[(n % 10) + 1]>>

-----------------------------------------------------------------------------
(* calculate_ats_score (src/MyCareerAssist.py)                              *)
(* A score is a number of points; overall_score, the one float of the      *)
(* result, is held in tenths of a point (850 is 85.0): the weights 0.3,    *)
(* 0.4, 0.3 are 3, 4, 3 tenths, and "/ 100 * 100" changes nothing.         *)

ContactWords ==
    << <<"T", "e", "l", "e", "f", "o", "n">>,
       <<"E", "m", "a", "i", "l">>,
       <<"K", "o", "n", "t", "a", "k", "t">>,
       <<"C", "o", "n", "t", "a", "c", "t">> >>

experience_keywords ==
    << <<"E", "r", "f", "a", "h", "r", "u", "n", "g">>,
       <<"E", "x", "p", "e", "r", "i", "e", "n", "c", "e">>,
       <<"B", "e", "r", "u", "f", "s", "e", "r", "f", "a", "h", "r", "u", "n", "g">>,
       <<"J", "a", "h", "n", "e">>,
       <<"J", "a", "h", "r", "e">> >>

education_keywords ==
    << <<"B", "a", "c", "h", "e", "l", "o", "r">>,
       <<"M", "a", "s", "t", "e", "r">>,
       <<"D", "i", "p", "l", "o", "m">>,
       <<"A", "b", "s", "c", "h", "l", "u", "s", "s">>,
       <<"U", "n", "i", "v", "e", "r", "s", "i", "t", "a-umlaut", "t">>,
       <<"H", "o", "c", "h", "s", "c", "h", "u", "l", "e">>,
       <<"S", "c", "h", "u", "l", "e">> >>

\* the messages (their leading pictograms left out)
IssueContact    == "Kontaktinformationen moeglicherweise nicht klar formatiert"
IssueExperience == "Keine klare Berufserfahrung erkannt"
IssueEducation  == "Keine Ausbildung/Studium erkannt"
LooksGood       == "Lebenslauf sieht gut aus!"

\* score_metrics as constructed
InitialScoreMetrics ==
    [overall_score |-> 0, formatting_score |-> 0, keyword_score |-> 0,
     readability_score |-> 0, recommendations |-> <<>>]

HasContact(text)    == re_search_word(ContactWords, text, TRUE)
HasExperience(text) == re_search_word(experience_keywords, text, TRUE)
HasEducation(text)  == re_search_word(education_keywords, text, TRUE)

\* issues, in the order the checks append them
Issues(text) ==
    (IF HasContact(text) THEN <<>> ELSE <<IssueContact>>)
    \o (IF HasExperience(text) THEN <<>> ELSE <<IssueExperience>>)
    \o (IF HasEducation(text) THEN <<>> ELSE <<IssueEducation>>)

\* score_metrics['formatting_score'] after the checks, before the baseline
\* (faulty variant: the whole baseline is taken off)
M_FormattingPenalty(text) == IF HasContact(text) THEN 0 ELSE 0 - 100
FormattingPenalty(text) == IF HasContact(text) THEN 0 ELSE 0 - 10

\* score_metrics['keyword_score'] after the checks, before the baseline
KeywordPenalty(text) ==
    (IF HasExperience(text) THEN 0 ELSE 0 - 5)
    + (IF HasEducation(text) THEN 0 ELSE 0 - 5)

\* readability_score of a text of line_count lines
\* (faulty variant: no clamp at 100)
M_Readability(line_count) == IF line_count > 20 THEN line_count * 2 ELSE 0
Readability(line_count) ==
    IF line_count > 20 THEN Min(100, line_count * 2) ELSE 0

\* overall_score, in tenths of a point
\* (faulty variant: the weights of keyword and readability exchanged)
M_Overall(formatting, keyword, readability) ==
    formatting * 3 + keyword * 3 + readability * 4
Overall(formatting, keyword, readability) ==
    formatting * 3 + keyword * 4 + readability * 3

calculate_ats_score(text) ==
    LET issues      == Issues(text)
        line_count  == split_count(text, "\n")
        formatting  == Max(0, 100 + FormattingPenalty(text))
        keyword     == Max(0, 100 + KeywordPenalty(text))
        readability == Max(0, Readability(line_count))
    IN  [overall_score     |-> Overall(formatting, keyword, readability),
         formatting_score  |-> formatting,
         keyword_score     |-> keyword,
         readability_score |-> readability,
         recommendations   |-> IF issues # <<>> THEN issues ELSE <<LooksGood>>]

\* the resume texts of SpecAts: up to MaxAtsPieces pieces, then newlines
MaxAtsPieces == 2
MaxAtsNewlines == 52

AtsPieces ==
    { <<"C", "o", "n", "t", "a", "c", "t", ":", " ">>,
      <<"e", "m", "a", "i", "l", "\n">>,
      <<"E", "x", "p", "e", "r", "i", "e", "n", "c", "e", " ">>,
      <<"B", "a", "c", "h", "e", "l", "o", "r", "\n">>,
      <<"C", "o", "n", "t", "a", "c", "t", "s">>,
      <<"J", "a", "h", "r", "e">>,
      <<"E", "x", "p", "e", "r", "i", "e", "n", "c", "e", ",", " ",
        "B", "a", "c", "h", "e", "l", "o", "r", "\n">> }

AtsResumeTexts ==
    { Concat(body) \o Repeat("\n", n) :
        body \in SeqsUpTo(AtsPieces, MaxAtsPieces), n \in 0..MaxAtsNewlines }

InitAts ==
    /\ pc = "start"
    /\ resume_text \in AtsResumeTexts
    /\ job_description = NotCalled
    /\ candidate_profile = NotCalled
    /\ template = NotCalled
    /\ name = NotCalled
    /\ position = NotCalled
    /\ experience = NotCalled
    /\ score_metrics = InitialScoreMetrics
    /\ match_score = NotCalled
    /\ suggestions = NotCalled
    /\ missing = NotCalled
    /\ cover_letter = NotCalled
    /\ resume_profile = NotCalled
    /\ recommendations = NotCalled
    /\ FetchNotCalled

CalculateAtsScore ==
    /\ pc = "start"
    /\ score_metrics' = calculate_ats_score(resume_text)
    /\ pc' = "done"
    /\ UNCHANGED <<resume_text, job_description, candidate_profile, letter_args,
                   match_score, suggestions, missing, cover_letter,
                   resume_profile, recommendations, fetch_vars>>

NextAts == CalculateAtsScore

SpecAts == InitAts /\ [][NextAts]_vars

\* C1: for every resume text, the empty one included, formatting_score,
\* keyword_score, readability_score and overall_score of the returned
\* dictionary each lie in [0,100] (overall_score, in tenths, in [0,1000]).
C1_ScoresInRange ==
    pc = "done" =>
        /\ score_metrics.formatting_score \in 0..100
        /\ score_metrics.keyword_score \in 0..100
        /\ score_metrics.readability_score \in 0..100
        /\ score_metrics.overall_score \in 0..1000

\* C1, its case: a text of more than 50 lines, whose readability is clamped
C1_Witness ==
    /\ pc = "done"
    /\ split_count(resume_text, "\n") > 50
    /\ score_metrics.readability_score = 100

\* C2: overall_score = 0.3*formatting + 0.4*keyword + 0.3*readability, where
\* readability = min(100, 2*lineCount) if lineCount > 20 and 0 otherwise; a
\* resume with a contact term, an experience term, an education term and
\* exactly 25 lines scores formatting 100, keyword 100, readability 50 and
\* overall 85.
C2_WeightedOverall ==
    pc = "done" =>
        LET lineCount == split_count(resume_text, "\n") IN
        /\ score_metrics.overall_score =
              3 * score_metrics.formatting_score
              + 4 * score_metrics.keyword_score
              + 3 * score_metrics.readability_score
        /\ score_metrics.readability_score =
              IF lineCount > 20 THEN Min(100, 2 * lineCount) ELSE 0
        /\ ( /\ HasContact(resume_text)
             /\ HasExperience(resume_text)
             /\ HasEducation(resume_text)
             /\ lineCount = 25 )
           => /\ score_metrics.formatting_score = 100
              /\ score_metrics.keyword_score = 100
              /\ score_metrics.readability_score = 50
              /\ score_metrics.overall_score = 850

\* C2, its case: "Contact: ", "Experience, Bachelor" and 25 lines in all
C2_Witness ==
    /\ pc = "done"
    /\ HasContact(resume_text)
    /\ HasExperience(resume_text)
    /\ HasEducation(resume_text)
    /\ split_count(resume_text, "\n") = 25
    /\ score_metrics.overall_score = 850

\* C3 as stated: for the empty resume text all four scores are 0 and the
\* recommendations are non-empty, without the 'looks good' message.
C3_EmptyScoresZero ==
    (pc = "done" /\ resume_text = <<>>) =>
        /\ score_metrics.formatting_score = 0
        /\ score_metrics.keyword_score = 0
        /\ score_metrics.readability_score = 0
        /\ score_metrics.overall_score = 0
        /\ score_metrics.recommendations # <<>>
        /\ LooksGood \notin Range(score_metrics.recommendations)

\* C3 as amended: for the empty resume text the scores are the lowest the
\* function gives, formatting 90, keyword 90, readability 0 and overall 63,
\* and the recommendations are the three warnings (no 'looks good' message).
C3_EmptyScoresLowest ==
    pc = "done" =>
        /\ score_metrics.formatting_score >= 90
        /\ score_metrics.keyword_score >= 90
        /\ score_metrics.readability_score >= 0
        /\ score_metrics.overall_score >= 630
        /\ resume_text = <<>> =>
              /\ score_metrics.formatting_score = 90
              /\ score_metrics.keyword_score = 90
              /\ score_metrics.readability_score = 0
              /\ score_metrics.overall_score = 630
              /\ score_metrics.recommendations =
                    <<IssueContact, IssueExperience, IssueEducation>>
              /\ LooksGood \notin Range(score_metrics.recommendations)

\* C3, its case: the call on the empty text has returned
C3_Witness == pc = "done" /\ resume_text = <<>>

-----------------------------------------------------------------------------
(* Rational numbers: the scores calculate_job_match_score computes with    *)
(* float division are held exactly, as [num, den] in lowest terms.         *)

RECURSIVE GCD(_, _)
GCD(a, b) == IF b = 0 THEN a ELSE GCD(b, a % b)

Abs(n) == IF n < 0 THEN 0 - n ELSE n

\* n / d, d > 0
Rat(n, d) == LET g == GCD(Abs(n), d) IN [num |-> n \div g, den |-> d \div g]
RatInt(n) == [num |-> n, den |-> 1]
RatAdd(a, b) == Rat(a.num * b.den + b.num * a.den, a.den * b.den)
RatLeq(a, b) == a.num * b.den <= b.num * a.den
RatMin(a, b) == IF RatLeq(a, b) THEN a ELSE b
RatMax(a, b) == IF RatLeq(a, b) THEN b ELSE a

-----------------------------------------------------------------------------
(* JobMatcher (src/ai_helpers.py) *)

\* skill_patterns of extract_candidate_profile
skill_patterns ==
    << <<"P", "y", "t", "h", "o", "n">>,
       <<"J", "a", "v", "a">>,
       <<"S", "Q", "L">>,
       <<"A", "W", "S">>,
       <<"A", "z", "u", "r", "e">>,
       <<"D", "o", "c", "k", "e", "r">>,
       <<"K", "u", "b", "e", "r", "n", "e", "t", "e", "s">>,
       <<"R", "e", "a", "c", "t">>,
       <<"A", "n", "g", "u", "l", "a", "r">> >>

\* profile['skills'] of extract_candidate_profile: the matches as written
ExtractSkills(text) == re_findall_word(skill_patterns, text, TRUE)

\* the skills calculate_job_match_score looks for in the job description
JobSkillWords == SubSeq(skill_patterns, 1, 6)

EducationLevels == {"Unknown", "Diploma/Certification", "Bachelor", "Master"}

Master   == <<"M", "a", "s", "t", "e", "r">>
Bachelor == <<"B", "a", "c", "h", "e", "l", "o", "r">>

\* candidate_skills: the profile's skills, lower-cased
CandidateSkills(profile) == {lower(s) : s \in Range(profile.skills)}

\* job_skills: the matches of the job description, as written there
JobSkills(job) == Range(re_findall_word(JobSkillWords, job, TRUE))

\* the skill component (at most 40)
SkillMatch(profile, job) ==
    LET candidate_skills == CandidateSkills(profile)
        job_skills       == JobSkills(job)
    IN  IF job_skills # {}
        THEN Rat(Cardinality(candidate_skills \cap job_skills) * 40,
                 Cardinality(job_skills))
        ELSE RatInt(40)

\* (\d+)\s+(?:years?|Jahre) at position i: where its digits end, 0 if it
\* does not match there.  \d+ and \s+ take their longest runs: after a
\* shorter one the next character is a digit or a space, never what follows.
YearsDigitsEnd(text, i) ==
    IF ~IsDigit(text[i]) THEN 0
    ELSE LET j == RunEnd(text, i, DigitSet)
             k == IF j < Len(text) /\ IsSpace(text[j + 1])
                  THEN RunEnd(text, j + 1, SpaceSet) ELSE 0
         IN  IF /\ k # 0
                /\ \/ LitAt(text, k + 1, <<"y", "e", "a", "r">>, FALSE)
                   \/ LitAt(text, k + 1, <<"J", "a", "h", "r", "e">>, FALSE)
             THEN j ELSE 0

\* experience_req: group(1) of the leftmost match, <<>> when there is none
experience_req(job) ==
    LET starts == {i \in 1..Len(job) : YearsDigitsEnd(job, i) # 0}
    IN  IF starts = {} THEN <<>>
        ELSE Slice(job, SetMin(starts), YearsDigitsEnd(job, SetMin(starts)))

ZeroDivisionError == [raised |-> "ZeroDivisionError"]
IsRaised(x) == "raised" \in DOMAIN x

\* the experience component (at most 30), or the exception the division raises
\* (faulty variant: the shortfall of years credited instead of the years)
M4_ExperienceMatch(profile, job) ==
    IF experience_req(job) # <<>>
    THEN LET req_years == int(experience_req(job))
         IN  IF profile.experience_years >= req_years THEN RatInt(30)
             ELSE IF req_years = 0 THEN ZeroDivisionError
             ELSE Rat((profile.experience_years - req_years) * 30, req_years)
    ELSE RatInt(30)
\* (faulty variant: > for >=)
M5_ExperienceMatch(profile, job) ==
    IF experience_req(job) # <<>>
    THEN LET req_years == int(experience_req(job))
         IN  IF profile.experience_years > req_years THEN RatInt(30)
             ELSE IF req_years = 0 THEN ZeroDivisionError
             ELSE RatMax(RatInt(0), Rat(profile.experience_years * 30, req_years))
    ELSE RatInt(30)
\* (as in the source)
ExperienceMatch(profile, job) ==
    IF experience_req(job) # <<>>
    THEN LET req_years == int(experience_req(job))
         IN  IF profile.experience_years >= req_years THEN RatInt(30)
             ELSE IF req_years = 0 THEN ZeroDivisionError
             ELSE RatMax(RatInt(0), Rat(profile.experience_years * 30, req_years))
    ELSE RatInt(30)

\* the education component
\* (faulty variant: 35 for a Master where the job names one)
M14_EducationMatch(profile, job) ==
    IF Contains(job, Master) /\ profile.education_level = "Master" THEN 35
    ELSE IF /\ Contains(job, Bachelor)
            /\ profile.education_level \in {"Master", "Bachelor"} THEN 15
    ELSE IF profile.education_level # "Unknown" THEN 10
    ELSE 0
\* (as in the source)
EducationMatch(profile, job) ==
    IF Contains(job, Master) /\ profile.education_level = "Master" THEN 20
    ELSE IF /\ Contains(job, Bachelor)
            /\ profile.education_level \in {"Master", "Bachelor"} THEN 15
    ELSE IF profile.education_level # "Unknown" THEN 10
    ELSE 0

calculate_job_match_score(profile, job) ==
    LET experience_match == ExperienceMatch(profile, job)
    IN  IF IsRaised(experience_match) THEN experience_match
        ELSE RatMin(RatInt(100),
                    RatAdd(RatAdd(SkillMatch(profile, job), experience_match),
                           RatInt(EducationMatch(profile, job))))

\* the arguments of SpecMatch
MaxYears == 3
MaxReqYears == 2

\* resumes the profiles' skills are extracted from
MatchResumes ==
    { <<>>,
      <<"P", "y", "t", "h", "o", "n", " ", "a", "n", "d", " ", "J", "a", "v", "a">>,
      <<"p", "y", "t", "h", "o", "n", ",", " ", "J", "a", "v", "a">>,
      <<"D", "o", "c", "k", "e", "r", " ", "a", "z", "u", "r", "e", " ",
        "A", "W", "S", " ", "s", "q", "l">> }

MatchProfiles ==
    [skills : {ExtractSkills(r) : r \in MatchResumes},
     experience_years : (0 - 1)..MaxYears,
     education_level : EducationLevels]

JobSkillParts ==
    { <<>>,
      <<"P", "y", "t", "h", "o", "n", " ">>,
      <<"p", "y", "t", "h", "o", "n", " ">>,
      <<"J", "a", "v", "a", " ", "p", "y", "t", "h", "o", "n", " ">>,
      <<"P", "y", "t", "h", "o", "n", " ", "p", "y", "t", "h", "o", "n", " ">>,
      <<"J", "a", "v", "a", "S", "c", "r", "i", "p", "t", " ">>,
      <<"S", "Q", "L", ",", " ", "A", "W", "S", ",", " ", "A", "z", "u", "r", "e",
        ",", " ", "D", "o", "c", "k", "e", "r", " ">> }

JobReqParts ==
    {<<>>}
    \cup {str(n) \o <<" ", "y", "e", "a", "r", "s", " ">> : n \in 0..MaxReqYears}
    \cup { <<"1", "0", " ", " ", "J", "a", "h", "r", "e", " ">>,
           <<"1", " ", "Y", "e", "a", "r", "s", " ">> }

JobEduParts ==
    { <<>>,
      <<"M", "a", "s", "t", "e", "r", " ">>,
      <<"B", "a", "c", "h", "e", "l", "o", "r", " ">>,
      <<"M", "a", "s", "t", "e", "r", ",", " ",
        "B", "a", "c", "h", "e", "l", "o", "r", " ">> }

MatchJobs ==
    {s \o r \o e : s \in JobSkillParts, r \in JobReqParts, e \in JobEduParts}

InitMatch ==
    /\ pc = "start"
    /\ resume_text = NotCalled
    /\ job_description \in MatchJobs
    /\ candidate_profile \in MatchProfiles
    /\ template = NotCalled
    /\ name = NotCalled
    /\ position = NotCalled
    /\ experience = NotCalled
    /\ score_metrics = NotCalled
    /\ match_score = NotCalled
    /\ suggestions = NotCalled
    /\ missing = NotCalled
    /\ cover_letter = NotCalled
    /\ resume_profile = NotCalled
    /\ recommendations = NotCalled
    /\ FetchNotCalled

CalculateJobMatchScore ==
    /\ pc = "start"
    /\ match_score' = calculate_job_match_score(candidate_profile, job_description)
    /\ pc' = IF IsRaised(match_score') THEN "raised" ELSE "done"
    /\ UNCHANGED <<resume_text, job_description, candidate_profile, letter_args,
                   score_metrics, suggestions, missing, cover_letter,
                   resume_profile, recommendations, fetch_vars>>

NextMatch == CalculateJobMatchScore

SpecMatch == InitMatch /\ [][NextMatch]_vars

\* C4: for every profile with non-negative experience_years and every job
\* description, calculate_job_match_score returns a value in [0,100], and
\* its skill, experience and education components are each non-negative.
C4_MatchScoreInRange ==
    (pc # "start" /\ candidate_profile.experience_years >= 0) =>
        /\ pc = "done"
        /\ RatLeq(RatInt(0), match_score)
        /\ RatLeq(match_score, RatInt(100))
        /\ RatLeq(RatInt(0), SkillMatch(candidate_profile, job_description))
        /\ ~IsRaised(ExperienceMatch(candidate_profile, job_description))
        /\ RatLeq(RatInt(0), ExperienceMatch(candidate_profile, job_description))
        /\ EducationMatch(candidate_profile, job_description) >= 0

\* C4, its case: a candidate with no years, none of the skills the job names
\* and no known education, for a job that asks for years: the score is 0
C4_Witness ==
    /\ pc = "done"
    /\ candidate_profile.experience_years = 0
    /\ JobSkills(job_description) # {}
    /\ experience_req(job_description) # <<>>
    /\ match_score = RatInt(0)

\* C5: for a job description that states a year requirement N >= 0 and a
\* profile with non-negative experience_years, the call does not fail (no
\* division by zero), and the score with more years, all else fixed, is
\* never lower.
C5_MonotonicInYears ==
    ( /\ pc # "start"
      /\ experience_req(job_description) # <<>>
      /\ candidate_profile.experience_years >= 0 ) =>
        /\ pc = "done"
        /\ \A y2 \in candidate_profile.experience_years..MaxYears :
              LET more == calculate_job_match_score(
                              [candidate_profile EXCEPT !.experience_years = y2],
                              job_description)
              IN  ~IsRaised(more) /\ RatLeq(match_score, more)

\* C5, its case: proportional credit, fewer years than the N > 0 required
C5_Witness ==
    /\ pc = "done"
    /\ experience_req(job_description) # <<>>
    /\ candidate_profile.experience_years > 0
    /\ candidate_profile.experience_years < int(experience_req(job_description))

\* C6: when the job description names a recognized skill, the skill
\* component is 40 times the fraction of the job's recognized skills that
\* occur in profile['skills'] irrespective of letter case (the full 40 when
\* the profile covers them all); it is 40 when the job names none.
C6_SkillFraction ==
    pc = "done" =>
        LET named == {lower(s) : s \in JobSkills(job_description)}
            has   == {s \in named :
                        \E c \in Range(candidate_profile.skills) : lower(c) = s}
        IN  SkillMatch(candidate_profile, job_description) =
               IF named = {} THEN RatInt(40)
               ELSE Rat(40 * Cardinality(has), Cardinality(named))

-----------------------------------------------------------------------------
(* ResumOptimizer.get_weak_verbs (src/ai_helpers.py) *)

\* weak_verbs: the dictionary, in the order of its declaration
weak_verbs ==
    << << <<"w", "o", "r", "k", "e", "d">>, "Implemented" >>,
       << <<"d", "i", "d">>, "Accomplished" >>,
       << <<"m", "a", "d", "e">>, "Created" >>,
       << <<"w", "a", "s", " ", "r", "e", "s", "p", "o", "n", "s", "i", "b", "l", "e",
            " ", "f", "o", "r">>, "Managed" >>,
       << <<"h", "e", "l", "p", "e", "d">>, "Supported" >>,
       << <<"r", "e", "s", "p", "o", "n", "s", "i", "b", "l", "e">>, "Directed" >>,
       << <<"p", "a", "r", "t", "i", "c", "i", "p", "a", "t", "e", "d">>, "Contributed" >>,
       << <<"i", "n", "v", "o", "l", "v", "e", "d">>, "Executed" >> >>

\* re.search(r'\b' + weak + r'\b', resume_text, re.IGNORECASE)
\* (faulty variant: re.IGNORECASE left out)
M_WeakVerbFound(weak, text) == re_search_word(<<weak>>, text, FALSE)
WeakVerbFound(weak, text) == re_search_word(<<weak>>, text, TRUE)

\* the loop over weak_verbs.items(), appending in the dictionary's order
RECURSIVE WeakVerbLoop(_, _)
WeakVerbLoop(items, text) ==
    IF items = <<>> THEN <<>>
    ELSE (IF WeakVerbFound(Head(items)[1], text) THEN <<Head(items)>> ELSE <<>>)
         \o WeakVerbLoop(Tail(items), text)

get_weak_verbs(text) == WeakVerbLoop(weak_verbs, text)

\* the resume texts of SpecWeak
MaxWeakPieces == 3

WeakPieces ==
    { <<"w", "o", "r", "k", "e", "d", " ">>,
      <<"D", "i", "d", " ">>,
      <<"m", "a", "d", "e", " ">>,
      <<"w", "a", "s", " ">>,
      <<"r", "e", "s", "p", "o", "n", "s", "i", "b", "l", "e", " ">>,
      <<"f", "o", "r", " ">>,
      <<"h", "e", "l", "p", "e", "d", " ">>,
      <<"r", "e">> }

WorkedOnTheProject ==
    <<"I", " ", "w", "o", "r", "k", "e", "d", " ", "o", "n", " ", "t", "h", "e", " ",
      "p", "r", "o", "j", "e", "c", "t">>

\* all eight phrases, the last declared first
AllWeakReversed ==
    <<"I", "n", "v", "o", "l", "v", "e", "d", ",", " ", "p", "a", "r", "t", "i", "c",
      "i", "p", "a", "t", "e", "d", ";", " ", "R", "E", "S", "P", "O", "N", "S", "I",
      "B", "L", "E", " ", "h", "e", "l", "p", "e", "d", " ", "w", "a", "s", " ", "r",
      "e", "s", "p", "o", "n", "s", "i", "b", "l", "e", " ", "f", "o", "r", " ", "m",
      "a", "d", "e", " ", "d", "i", "d", " ", "w", "o", "r", "k", "e", "d">>

WeakResumeTexts ==
    {Concat(p) : p \in SeqsUpTo(WeakPieces, MaxWeakPieces)}
    \cup {WorkedOnTheProject, AllWeakReversed}

InitWeak ==
    /\ pc = "start"
    /\ resume_text \in WeakResumeTexts
    /\ job_description = NotCalled
    /\ candidate_profile = NotCalled
    /\ template = NotCalled
    /\ name = NotCalled
    /\ position = NotCalled
    /\ experience = NotCalled
    /\ score_metrics = NotCalled
    /\ match_score = NotCalled
    /\ suggestions = NotCalled
    /\ missing = NotCalled
    /\ cover_letter = NotCalled
    /\ resume_profile = NotCalled
    /\ recommendations = NotCalled
    /\ FetchNotCalled

GetWeakVerbs ==
    /\ pc = "start"
    /\ suggestions' = get_weak_verbs(resume_text)
    /\ pc' = "done"
    /\ UNCHANGED <<resume_text, job_description, candidate_profile, letter_args,
                   score_metrics, match_score, missing, cover_letter,
                   resume_profile, recommendations, fetch_vars>>

NextWeak == GetWeakVerbs

SpecWeak == InitWeak /\ [][NextWeak]_vars

\* the weak phrase occurs in text as a whole word, letter case ignored: some
\* stretch of the text lower-cases to it, with no word character next to it
OccursAsWholeWord(weak, text) ==
    \E i \in 1..Len(text) :
        /\ i + Len(weak) - 1 <= Len(text)
        /\ lower(Slice(text, i, i + Len(weak) - 1)) = weak
        /\ i = 1 \/ ~IsWordChar(text[i - 1])
        /\ i + Len(weak) - 1 = Len(text) \/ ~IsWordChar(text[i + Len(weak)])

\* C7: get_weak_verbs returns exactly the pairs of the 8-entry mapping whose
\* weak phrase occurs as a case-insensitive whole word, each at most once and
\* in the order of the mapping's declaration; for 'I worked on the project'
\* the result is exactly [('worked', 'Implemented')].
C7_WeakVerbsInOrder ==
    pc = "done" =>
        /\ \A k \in 1..Len(suggestions) : suggestions[k] \in Range(weak_verbs)
        /\ \A k, l \in 1..Len(suggestions) :
              k < l => \E a, b \in 1..Len(weak_verbs) :
                          /\ a < b
                          /\ weak_verbs[a] = suggestions[k]
                          /\ weak_verbs[b] = suggestions[l]
        /\ \A a \in 1..Len(weak_verbs) :
              weak_verbs[a] \in Range(suggestions)
                  <=> OccursAsWholeWord(weak_verbs[a][1], resume_text)
        /\ Len(weak_verbs) = 8
        /\ resume_text = WorkedOnTheProject =>
              suggestions = << << <<"w", "o", "r", "k", "e", "d">>, "Implemented" >> >>

\* C7, its case: a text where all eight phrases occur, in another order and
\* another letter case than declared
C7_Witness ==
    /\ pc = "done"
    /\ resume_text = AllWeakReversed
    /\ suggestions = weak_verbs

-----------------------------------------------------------------------------
(* ResumOptimizer.get_missing_keywords (src/ai_helpers.py) *)

\* [A-Z] and [a-z] of a pattern compiled without flags: ASCII letters only
AZ == UpperSet \ {"A-umlaut"}
az == LowerSet \ {"a-umlaut"}

\* [A-Z][a-z]+ at position i: the last position of its longest match, or 0
CapWordEnd(text, i) ==
    IF /\ i + 1 <= Len(text)
       /\ text[i] \in AZ
       /\ text[i + 1] \in az
    THEN RunEnd(text, i + 1, az) ELSE 0

\* (?:\s[A-Z][a-z]+)*\b after a word that ends at j: the last position of
\* the match, or 0.  The group repeats as often as it can; where the final
\* \b then fails, the match backs off one repetition at a time (a shorter
\* [a-z]+ is followed by a lower-case letter, which is neither \s nor at a \b).
RECURSIVE PhraseEnd(_, _)
PhraseEnd(text, j) ==
    LET next == IF j + 1 <= Len(text) /\ IsSpace(text[j + 1])
                THEN CapWordEnd(text, j + 2) ELSE 0
        further == IF next # 0 THEN PhraseEnd(text, next) ELSE 0
    IN  IF further # 0 THEN further
        ELSE IF WordBoundary(text, j) THEN j
        ELSE 0

\* \b[A-Z][a-z]+(?:\s[A-Z][a-z]+)*\b at position i: its last position, or 0
KeywordEnd(text, i) ==
    IF WordBoundary(text, i - 1) /\ CapWordEnd(text, i) # 0
    THEN PhraseEnd(text, CapWordEnd(text, i)) ELSE 0

\* re.findall of that pattern: the matches, leftmost first, not overlapping
RECURSIVE FindKeywordsFrom(_, _)
FindKeywordsFrom(text, i) ==
    IF i > Len(text) THEN <<>>
    ELSE LET e == KeywordEnd(text, i)
         IN  IF e = 0 THEN FindKeywordsFrom(text, i + 1)
             ELSE <<Slice(text, i, e)>> \o FindKeywordsFrom(text, e + 1)

\* keywords
ExtractKeywords(job) == FindKeywordsFrom(job, 1)

\* the elements of a list, each once, in the order of their first occurrence
RECURSIVE FirstOccurrences(_)
FirstOccurrences(list) ==
    IF list = <<>> THEN <<>>
    ELSE LET front == FirstOccurrences(SubSeq(list, 1, Len(list) - 1))
             last  == list[Len(list)]
         IN  IF last \in Range(front) THEN front ELSE Append(front, last)

RECURSIVE AllOrders(_)
AllOrders(S) ==
    IF S = {} THEN {<<>>}
    ELSE UNION {{<<x>> \o p : p \in AllOrders(S \ {x})} : x \in S}

Reverse(s) == [i \in 1..Len(s) |-> s[Len(s) + 1 - i]]
Rotate(s, r) == [i \in 1..Len(s) |-> s[((i + r - 1) % Len(s)) + 1]]

\* The orders in which "for keyword in set(keywords)" may visit the set: the
\* order of a set of strings is fixed by the strings' hashes, which change
\* from run to run, so every order is possible.  Sets of up to MaxPermute
\* elements are visited in every order; of the orders of a larger set, too
\* many to enumerate, the rotations of the first-occurrence order and of its
\* reverse are taken.
MaxPermute == 4

SetOrders(keywords) ==
    LET S == Range(keywords)
        first == FirstOccurrences(keywords)
    IN  IF Cardinality(S) <= MaxPermute THEN AllOrders(S)
        ELSE {Rotate(first, r) : r \in 0..(Len(first) - 1)}
             \cup {Rotate(Reverse(first), r) : r \in 0..(Len(first) - 1)}

\* keyword.lower() not in resume_text.lower()
\* (faulty variant: neither side lower-cased)
M_IsMissing(keyword, resume) == ~Contains(resume, keyword)
IsMissing(keyword, resume) == ~Contains(lower(resume), lower(keyword))

MissingCap == 10

\* missing[:10]
\* (faulty variant: the whole list)
M_Truncate(list) == list
Truncate(list) == SubSeq(list, 1, Min(Len(list), MissingCap))

\* the list returned when the set is visited in the given order
MissingInOrder(order, resume) ==
    Truncate(SelectSeq(order, LAMBDA keyword : IsMissing(keyword, resume)))

\* the lists get_missing_keywords may return
get_missing_keywords(resume, job) ==
    {MissingInOrder(order, resume) : order \in SetOrders(ExtractKeywords(job))}

\* the arguments of SpecKeywords
MaxJobPieces == 4
MaxKeywords == 11

JobPieces ==
    { <<"A", "b">>, <<"C", "d">>, <<"A", "B">>, <<"b">>, <<" ">>, <<",">> }

\* n different keywords: "Aa,Ba,Ca,..."
LongJob(n) == Concat([k \in 1..n |-> <<UpperChars[k], "a", ",">>])

KeywordJobs ==
    {Concat(p) : p \in SeqsUpTo(JobPieces, MaxJobPieces)}
    \cup {LongJob(n) : n \in 1..MaxKeywords}

KeywordResumes ==
    { <<>>,
      <<"x", "A", "B", "y">>,
      <<"c", "d", " ", "b", "a">>,
      <<"a", "b", " ", "c", "d", ",", "a", "a", " ", "c", "a">> }

InitKeywords ==
    /\ pc = "start"
    /\ resume_text \in KeywordResumes
    /\ job_description \in KeywordJobs
    /\ candidate_profile = NotCalled
    /\ template = NotCalled
    /\ name = NotCalled
    /\ position = NotCalled
    /\ experience = NotCalled
    /\ score_metrics = NotCalled
    /\ match_score = NotCalled
    /\ suggestions = NotCalled
    /\ missing = NotCalled
    /\ cover_letter = NotCalled
    /\ resume_profile = NotCalled
    /\ recommendations = NotCalled
    /\ FetchNotCalled

GetMissingKeywords ==
    /\ pc = "start"
    /\ missing' \in get_missing_keywords(resume_text, job_description)
    /\ pc' = "done"
    /\ UNCHANGED <<resume_text, job_description, candidate_profile, letter_args,
                   score_metrics, match_score, suggestions, cover_letter,
                   resume_profile, recommendations, fetch_vars>>

NextKeywords == GetMissingKeywords

SpecKeywords == InitKeywords /\ [][NextKeywords]_vars

\* the distinct keywords of the job description that the resume lacks, in
\* the order of their first occurrence in the job description
MissingByFirstOccurrence(resume, job) ==
    SelectSeq(FirstOccurrences(ExtractKeywords(job)),
              LAMBDA keyword : IsMissing(keyword, resume))

\* C8: get_missing_keywords returns the missing keywords in the order of
\* their first occurrence in the job description, the first 10 of them when
\* more than 10 are missing (so that the same arguments give the same list).
C8_FirstOccurrenceOrder ==
    pc = "done" =>
        LET expected == MissingByFirstOccurrence(resume_text, job_description)
        IN  missing = SubSeq(expected, 1, Min(Len(expected), 10))

\* a capitalized word: a whole word, one upper-case letter then lower-case ones
HasCapitalizedWord(text) ==
    \E i, j \in 1..Len(text) :
        /\ i < j
        /\ text[i] \in AZ
        /\ \A k \in (i + 1)..j : text[k] \in az
        /\ i = 1 \/ ~IsWordChar(text[i - 1])
        /\ j = Len(text) \/ ~IsWordChar(text[j + 1])

\* a capitalized phrase: capitalized words, one whitespace between them
IsCapitalizedPhrase(s) ==
    /\ s # <<>>
    /\ \A i \in 1..Len(s) :
          \/ s[i] \in az /\ i > 1 /\ s[i - 1] \in AZ \cup az
          \/ s[i] \in AZ /\ (i = 1 \/ IsSpace(s[i - 1]))
                         /\ i < Len(s) /\ s[i + 1] \in az
          \/ IsSpace(s[i]) /\ i > 1 /\ s[i - 1] \in az
                           /\ i < Len(s) /\ s[i + 1] \in AZ

\* sub occurs in text, letter case ignored
OccursIgnoringCase(sub, text) ==
    \E i \in 1..(Len(text) + 1) :
        /\ i + Len(sub) - 1 <= Len(text)
        /\ \A k \in 1..Len(sub) : LowerChar(text[i + k - 1]) = LowerChar(sub[k])

\* C9: get_missing_keywords returns a duplicate-free list of at most 10
\* elements; every element is a capitalized phrase extracted from the job
\* description whose lower-case form is not a substring of the lower-cased
\* resume; when at most 10 distinct phrases are missing all are returned;
\* with an empty resume every extracted phrase (up to 10) is returned, and
\* the result is non-empty when the job description has a capitalized word.
C9_MissingKeywords ==
    pc = "done" =>
        LET extracted == Range(ExtractKeywords(job_description))
            absent == {k \in extracted : ~OccursIgnoringCase(k, resume_text)}
        IN  /\ Len(missing) <= 10
            /\ \A k, l \in 1..Len(missing) : k # l => missing[k] # missing[l]
            /\ \A k \in 1..Len(missing) :
                  /\ missing[k] \in absent
                  /\ IsCapitalizedPhrase(missing[k])
                  /\ Contains(job_description, missing[k])
            /\ Cardinality(absent) <= 10 => Range(missing) = absent
            /\ resume_text = <<>> =>
                  /\ Range(missing) \subseteq extracted
                  /\ Len(missing) = Min(Cardinality(extracted), 10)
                  /\ HasCapitalizedWord(job_description) => missing # <<>>

\* C9, its case: more than 10 phrases are missing and 10 are returned
C9_Witness ==
    /\ pc = "done"
    /\ Len(missing) = 10
    /\ Cardinality({k \in Range(ExtractKeywords(job_description)) :
                      ~OccursIgnoringCase(k, resume_text)}) > 10

-----------------------------------------------------------------------------
(* CoverLetterGenerator (src/ai_helpers.py)                                 *)
(* A template is its literal text and its placeholders, in order; the      *)
(* letter is a string.  The umlauts and the sharp s of the German text are *)
(* written ae, oe, ue, ss.                                                 *)

Lit(text) == [lit |-> text]
Field(field_name) == [field |-> field_name]

TemplateFormalDe ==
    << Lit("Sehr geehrte Damen und Herren,\n"),
       Lit("\n"),
       Lit("ich bin eine hochmotivierte Fachkraft mit "),
       Field("years"),
       Lit(" Jahren Erfahrung in "),
       Field("field"),
       Lit(".\n"),
       Lit("Meine Faehigkeiten im Bereich "),
       Field("skills"),
       Lit(" sowie meine "),
       Field("achievements"),
       Lit(" qualifizieren mich\n"),
       Lit("ideal fuer die Position als "),
       Field("position"),
       Lit(" bei Ihrer Organisation.\n"),
       Lit("\n"),
       Lit("In meiner bisherigen Karriere habe ich "),
       Field("accomplishments"),
       Lit(".\n"),
       Lit("Ich bin ueberzeugt, dass meine Kompetenzen und meine Leidenschaft fuer "),
       Field("passion"),
       Lit("\n"),
       Lit("einen wertvollen Beitrag zu Ihrem Team leisten werden.\n"),
       Lit("\n"),
       Lit("Gerne stelle ich Ihnen in einem persoenlichen Gespraech meine Qualifikationen \n"),
       Lit("naeher dar. Vielen Dank fuer Ihre Aufmerksamkeit.\n"),
       Lit("\n"),
       Lit("Mit freundlichen Gruessen,\n"),
       Field("name") >>

TemplateFormalEn ==
    << Lit("Dear Hiring Manager,\n"),
       Lit("\n"),
       Lit("I am a highly motivated professional with "),
       Field("years"),
       Lit(" years of experience in "),
       Field("field"),
       Lit(".\n"),
       Lit("My expertise in "),
       Field("skills"),
       Lit(" and proven track record of "),
       Field("achievements"),
       Lit(" make me\n"),
       Lit("an excellent fit for the "),
       Field("position"),
       Lit(" role at your organization.\n"),
       Lit("\n"),
       Lit("Throughout my career, I have "),
       Field("accomplishments"),
       Lit(".\n"),
       Lit("I am confident that my skills and passion for "),
       Field("passion"),
       Lit(" will make a\n"),
       Lit("significant contribution to your team.\n"),
       Lit("\n"),
       Lit("I would welcome the opportunity to discuss how I can add value to your organization.\n"),
       Lit("Thank you for considering my application.\n"),
       Lit("\n"),
       Lit("Best regards,\n"),
       Field("name") >>

TEMPLATES == [formal_de |-> TemplateFormalDe, formal_en |-> TemplateFormalEn]

\* template_text.format(**fields)
RECURSIVE format(_, _)
format(template_text, fields) ==
    IF template_text = <<>> THEN ""
    ELSE LET part == Head(template_text)
         IN  (IF "field" \in DOMAIN part THEN fields[part.field] ELSE part.lit)
             \o format(Tail(template_text), fields)

\* experience.get(key, default)
get(dict, key, default) == IF key \in DOMAIN dict THEN dict[key] ELSE default

\* the template used: an unknown identifier becomes 'formal_de'
\* (faulty variant: falls back to 'formal_en')
M_FallbackTemplate(template_id) ==
    IF template_id \notin DOMAIN TEMPLATES THEN "formal_en" ELSE template_id
FallbackTemplate(template_id) ==
    IF template_id \notin DOMAIN TEMPLATES THEN "formal_de" ELSE template_id

generate_cover_letter(template_id, name_, position_, experience_) ==
    format(TEMPLATES[FallbackTemplate(template_id)],
           [name            |-> name_,
            position        |-> position_,
            years           |-> get(experience_, "years", "5"),
            field           |-> get(experience_, "field", "your industry"),
            skills          |-> get(experience_, "skills", "relevant skills"),
            achievements    |-> get(experience_, "achievements", "consistent achievements"),
            accomplishments |-> get(experience_, "accomplishments", "demonstrated excellence"),
            passion         |-> get(experience_, "passion", "professional growth")])

\* the arguments of SpecLetter
LetterTemplates == {"formal_de", "formal_en", "unknown_template", ""}
LetterNames == {"Anna", "{name}"}
LetterPositions == {"Engineer", ""}
\* the keys a mapping may hold: the six of the templates and one they ignore
ExperienceKeys ==
    {"years", "field", "skills", "achievements", "accomplishments", "passion",
     "hobby"}
LetterExperiences == {[k \in S |-> "my " \o k] : S \in SUBSET ExperienceKeys}

InitLetter ==
    /\ pc = "start"
    /\ resume_text = NotCalled
    /\ job_description = NotCalled
    /\ candidate_profile = NotCalled
    /\ template \in LetterTemplates
    /\ name \in LetterNames
    /\ position \in LetterPositions
    /\ experience \in LetterExperiences
    /\ score_metrics = NotCalled
    /\ match_score = NotCalled
    /\ suggestions = NotCalled
    /\ missing = NotCalled
    /\ cover_letter = NotCalled
    /\ resume_profile = NotCalled
    /\ recommendations = NotCalled
    /\ FetchNotCalled

GenerateCoverLetter ==
    /\ pc = "start"
    /\ cover_letter' = generate_cover_letter(template, name, position, experience)
    /\ pc' = "done"
    /\ UNCHANGED <<resume_text, job_description, candidate_profile, letter_args,
                   score_metrics, match_score, suggestions, missing,
                   resume_profile, recommendations, fetch_vars>>

NextLetter == GenerateCoverLetter

SpecLetter == InitLetter /\ [][NextLetter]_vars

\* the defaults the claim names
ClaimedDefaults ==
    [years |-> "5", field |-> "your industry", skills |-> "relevant skills",
     achievements |-> "consistent achievements",
     accomplishments |-> "demonstrated excellence",
     passion |-> "professional growth"]

\* the mapping with its absent fields given their claimed defaults
WithDefaults(dict) ==
    [k \in DOMAIN ClaimedDefaults |->
        IF k \in DOMAIN dict THEN dict[k] ELSE ClaimedDefaults[k]]

\* the formal_de letter of Anna, Engineer, with every default
AnnaEngineerFormalDe ==
    "Sehr geehrte Damen und Herren,\n" \o
    "\n" \o
    "ich bin eine hochmotivierte Fachkraft mit 5 Jahren Erfahrung in your industry.\n" \o
    "Meine Faehigkeiten im Bereich relevant skills sowie meine consistent achievements qualifizieren mich\n" \o
    "ideal fuer die Position als Engineer bei Ihrer Organisation.\n" \o
    "\n" \o
    "In meiner bisherigen Karriere habe ich demonstrated excellence.\n" \o
    "Ich bin ueberzeugt, dass meine Kompetenzen und meine Leidenschaft fuer professional growth\n" \o
    "einen wertvollen Beitrag zu Ihrem Team leisten werden.\n" \o
    "\n" \o
    "Gerne stelle ich Ihnen in einem persoenlichen Gespraech meine Qualifikationen \n" \o
    "naeher dar. Vielen Dank fuer Ihre Aufmerksamkeit.\n" \o
    "\n" \o
    "Mit freundlichen Gruessen,\n" \o
    "Anna"

\* C10: with a template id other than 'formal_de' and 'formal_en',
\* generate_cover_letter returns, without an error, the text the call with
\* 'formal_de' and the same other arguments returns; fields absent from the
\* mapping are filled with their fixed defaults.
C10_UnknownTemplateFallsBack ==
    (pc # "start" /\ template \notin {"formal_de", "formal_en"}) =>
        /\ pc = "done"
        /\ cover_letter =
              generate_cover_letter("formal_de", name, position, experience)
        /\ cover_letter =
              format(TemplateFormalDe,
                     [k \in {"name", "position"} \cup DOMAIN ClaimedDefaults |->
                         IF k = "name" THEN name
                         ELSE IF k = "position" THEN position
                         ELSE WithDefaults(experience)[k]])
        /\ (name = "Anna" /\ position = "Engineer" /\ DOMAIN experience = {})
              => cover_letter = AnnaEngineerFormalDe

\* C10, its case: composeCoverLetter("unknown_template", "Anna", "Engineer", {})
C10_Witness ==
    /\ pc = "done"
    /\ template = "unknown_template"
    /\ name = "Anna"
    /\ position = "Engineer"
    /\ DOMAIN experience = {}
    /\ cover_letter = AnnaEngineerFormalDe

-----------------------------------------------------------------------------
(* JobMatcher.extract_candidate_profile (src/ai_helpers.py) *)

\* (\d+)\s+(?:years?|Jahre|Jahres?) with re.IGNORECASE at position i: where
\* its digits end, 0 if it does not match there
ProfileYearsDigitsEnd(text, i) ==
    IF ~IsDigit(text[i]) THEN 0
    ELSE LET j == RunEnd(text, i, DigitSet)
             k == IF j < Len(text) /\ IsSpace(text[j + 1])
                  THEN RunEnd(text, j + 1, SpaceSet) ELSE 0
         IN  IF /\ k # 0
                /\ \/ LitAt(text, k + 1, <<"y", "e", "a", "r">>, TRUE)
                   \/ LitAt(text, k + 1, <<"J", "a", "h", "r", "e">>, TRUE)
             THEN j ELSE 0

\* years_matches, as a set: group(1) of every match.  A match begins where a
\* run of digits begins: the scan resumes after the word of the match before.
years_matches(text) ==
    { Slice(text, i, ProfileYearsDigitsEnd(text, i)) :
        i \in { p \in 1..Len(text) :
                  /\ ProfileYearsDigitsEnd(text, p) # 0
                  /\ p = 1 \/ ~IsDigit(text[p - 1]) } }

\* profile['experience_years']
ExperienceYears(text) ==
    IF years_matches(text) # {}
    THEN CHOOSE y \in {int(m) : m \in years_matches(text)} :
            \A m \in years_matches(text) : int(m) <= y
    ELSE 0

\* languages of extract_candidate_profile
languages ==
    <<<<"E", "n", "g", "l", "i", "s", "h">>, <<"G", "e", "r", "m", "a", "n">>, <<"F", "r", "e", "n", "c", "h">>, <<"S", "p", "a", "n", "i", "s", "h">>, <<"C", "h", "i", "n", "e", "s", "e">>>>

\* profile['languages']: lang in resume_text
Languages(text) == SelectSeq(languages, LAMBDA lang : Contains(text, lang))

\* the alternatives of the three patterns of the education level
MasterPattern   == <<<<"M", "a", "s", "t", "e", "r">>, <<"M", ".", "S", "c">>, <<"M", "B", "A">>>>
BachelorPattern == <<<<"B", "a", "c", "h", "e", "l", "o", "r">>, <<"B", ".", "S", "c">>, <<"B", ".", "A">>>>
DiplomaPattern  == <<<<"D", "i", "p", "l", "o", "m">>, <<"D", "i", "p", "l", "o", "m">>, <<"C", "e", "r", "t", "i", "f", "i", "c", "a", "t", "i", "o", "n">>>>

\* re.search(r'(w1|w2|...)', text): one of the alternatives is in the text
re_search(words, text) == \E k \in 1..Len(words) : Contains(text, words[k])

\* profile['education_level']
\* (faulty variant: the Bachelor pattern tried first)
M_EducationLevel(text) ==
    IF re_search(BachelorPattern, text) THEN "Bachelor"
    ELSE IF re_search(MasterPattern, text) THEN "Master"
    ELSE IF re_search(DiplomaPattern, text) THEN "Diploma/Certification"
    ELSE "Unknown"
\* (as in the source)
EducationLevel(text) ==
    IF re_search(MasterPattern, text) THEN "Master"
    ELSE IF re_search(BachelorPattern, text) THEN "Bachelor"
    ELSE IF re_search(DiplomaPattern, text) THEN "Diploma/Certification"
    ELSE "Unknown"

extract_candidate_profile(text) ==
    [skills           |-> ExtractSkills(text),
     experience_years |-> ExperienceYears(text),
     languages        |-> Languages(text),
     education_level  |-> EducationLevel(text),
     key_achievements |-> <<>>]

\* the arguments of SpecProfile
MaxProfilePieces == 2

ProfilePieces ==
    { <<"M", "a", "s", "t", "e", "r">>, <<"M", ".", "S", "c">>, <<"M", "B", "A">>, <<"B", "a", "c", "h", "e", "l", "o", "r">>, <<"B", ".", "S", "c">>, <<"B", ".", "A">>,
      <<"D", "i", "p", "l", "o", "m">>, <<"C", "e", "r", "t", "i", "f", "i", "c", "a", "t", "i", "o", "n">>, <<"D", "i", "p", "l", "o", "m", ",", " ", "B", ".", "A">>,
      <<"m", "a", "s", "t", "e", "r", " ", "o", "f", " ", "a", "r", "t", "s", ",", " ", "b", "a", "c", "h", "e", "l", "o", "r">>, <<"M", "x", "S", "c", " ", "B", "x", "A">>, <<" ">>,
      <<"1", "2", " ", "Y", "e", "a", "r", "s", " ", "P", "y", "t", "h", "o", "n", ",", " ", "3", " ", " ", "j", "a", "h", "r", "e", " ", "j", "a", "v", "a", " ">>, <<"7", " ", "G", "e", "r", "m", "a", "n", " ", "y", "e", "a", "r", "s">> }

ProfileResumeTexts == {Concat(body) : body \in SeqsUpTo(ProfilePieces, MaxProfilePieces)}

InitProfile ==
    /\ pc = "start"
    /\ resume_text \in ProfileResumeTexts
    /\ job_description = NotCalled
    /\ candidate_profile = NotCalled
    /\ template = NotCalled
    /\ name = NotCalled
    /\ position = NotCalled
    /\ experience = NotCalled
    /\ score_metrics = NotCalled
    /\ match_score = NotCalled
    /\ suggestions = NotCalled
    /\ missing = NotCalled
    /\ cover_letter = NotCalled
    /\ resume_profile = NotCalled
    /\ recommendations = NotCalled
    /\ FetchNotCalled

\* the call, and the call once more on the same text
ExtractCandidateProfile ==
    /\ pc \in {"start", "done"}
    /\ resume_profile' = extract_candidate_profile(resume_text)
    /\ pc' = IF pc = "start" THEN "done" ELSE "done twice"
    /\ UNCHANGED <<resume_text, job_description, candidate_profile, letter_args,
                   score_metrics, match_score, suggestions, missing,
                   cover_letter, recommendations, fetch_vars>>

NextProfile == ExtractCandidateProfile

SpecProfile == InitProfile /\ [][NextProfile]_vars

\* the keywords of the tiers, in the order of their priority
Tiers == <<"Master", "Bachelor", "Diploma/Certification">>

TierKeywords(tier) ==
    CASE tier = "Master" -> {<<"M", "a", "s", "t", "e", "r">>, <<"M", ".", "S", "c">>, <<"M", "B", "A">>}
      [] tier = "Bachelor" -> {<<"B", "a", "c", "h", "e", "l", "o", "r">>, <<"B", ".", "S", "c">>, <<"B", ".", "A">>}
      [] tier = "Diploma/Certification" -> {<<"D", "i", "p", "l", "o", "m">>, <<"C", "e", "r", "t", "i", "f", "i", "c", "a", "t", "i", "o", "n">>}

\* the keyword occurs in the text, as it is written
KeywordOccurs(keyword, text) ==
    \E i \in 1..Len(text) :
        /\ i + Len(keyword) - 1 <= Len(text)
        /\ \A k \in 1..Len(keyword) : text[i + k - 1] = keyword[k]

TierOccurs(tier, text) == \E keyword \in TierKeywords(tier) : KeywordOccurs(keyword, text)

\* C11: for every resume text, education_level is the tier of highest
\* priority (Master, then Bachelor, then Diploma/Certification) one of whose
\* keywords occurs in the text, and 'Unknown' when none occurs; a text with a
\* Master keyword and a Bachelor keyword yields 'Master'; a second
\* extraction from the same text yields the same tier.
C11_EducationTier ==
    /\ [](pc # "start" =>
            /\ \A n \in 1..Len(Tiers) :
                  resume_profile.education_level = Tiers[n]
                     <=> /\ TierOccurs(Tiers[n], resume_text)
                         /\ \A h \in 1..(n - 1) : ~TierOccurs(Tiers[h], resume_text)
            /\ resume_profile.education_level = "Unknown"
                  <=> \A n \in 1..Len(Tiers) : ~TierOccurs(Tiers[n], resume_text)
            /\ (TierOccurs("Master", resume_text) /\ TierOccurs("Bachelor", resume_text))
                  => resume_profile.education_level = "Master")
    /\ [][pc = "done" =>
            resume_profile'.education_level = resume_profile.education_level]_vars

\* C11, its case: extracted twice from a text with a Bachelor keyword before
\* a Master keyword
C11_Witness ==
    /\ pc = "done twice"
    /\ resume_text = <<"B", ".", "S", "c", "M", "B", "A">>
    /\ resume_profile.education_level = "Master"

-----------------------------------------------------------------------------
(* JobMatcher.calculate_job_match_score: the bound of the sum *)

\* the sum of the three components, before min(100, score)
ComponentSum(profile, job) ==
    RatAdd(RatAdd(SkillMatch(profile, job), ExperienceMatch(profile, job)),
           RatInt(EducationMatch(profile, job)))

\* C14: for every profile and job description, what calculate_job_match_score
\* returns is at most 90: the skill component is at most 40, the experience
\* component at most 30 and the education component is 0, 10, 15 or 20, so
\* min(100, score) returns the sum of the components unchanged.
C14_ScoreAtMost90 ==
    pc = "done" =>
        /\ RatLeq(match_score, RatInt(90))
        /\ RatLeq(SkillMatch(candidate_profile, job_description), RatInt(40))
        /\ RatLeq(ExperienceMatch(candidate_profile, job_description), RatInt(30))
        /\ EducationMatch(candidate_profile, job_description) \in {0, 10, 15, 20}
        /\ match_score = ComponentSum(candidate_profile, job_description)

\* C14, its case: the job names a skill, years and a Master, and the profile
\* meets all three: the score is 90
C14_Witness ==
    /\ pc = "done"
    /\ JobSkills(job_description) # {}
    /\ experience_req(job_description) # <<>>
    /\ Contains(job_description, Master)
    /\ candidate_profile.education_level = "Master"
    /\ match_score = RatInt(90)

-----------------------------------------------------------------------------
(* ResumOptimizer.generate_ats_recommendations (src/ai_helpers.py) *)

\* ''.join(chars): the text as a string, for the f-strings
RECURSIVE Join(_)
Join(chars) == IF chars = <<>> THEN "" ELSE Head(chars) \o Join(Tail(chars))

\* re.search(r'\b\d{4}\b', text) is not None
HasFourDigits(text) ==
    \E i \in 1..(Len(text) - 3) :
        /\ WordBoundary(text, i - 1)
        /\ \A k \in i..(i + 3) : IsDigit(text[k])
        /\ WordBoundary(text, i + 3)

\* the alternatives of the two keyword patterns
TechPattern == <<<<"P", "y", "t", "h", "o", "n">>, <<"J", "a", "v", "a">>, <<"C", "+", "+">>, <<"J", "a", "v", "a", "S", "c", "r", "i", "p", "t">>, <<"S", "Q", "L">>>>
LeadershipPattern == <<<<"P", "r", "o", "j", "e", "c", "t">>, <<"T", "e", "a", "m">>, <<"L", "e", "a", "d", "e", "r", "s", "h", "i", "p">>, <<"M", "a", "n", "a", "g", "e", "m", "e", "n", "t">>>>

sections == <<<<"E", "x", "p", "e", "r", "i", "e", "n", "c", "e">>, <<"E", "d", "u", "c", "a", "t", "i", "o", "n">>, <<"S", "k", "i", "l", "l", "s">>, <<"S", "u", "m", "m", "a", "r", "y">>>>

\* recommendations['formatting']
FormattingRecs(text) ==
    (IF split_count(text, "\n") < 10
     THEN <<"Resume appears too short. Add more details about your experience.">>
     ELSE <<>>)
    \o (IF ~HasFourDigits(text)
        THEN <<"Consider adding dates to your work experience entries.">>
        ELSE <<>>)

\* recommendations['keywords']
KeywordRecs(text) ==
    (IF ~re_search(TechPattern, text)
     THEN <<"Add relevant technical skills/programming languages if applicable.">>
     ELSE <<>>)
    \o (IF ~re_search(LeadershipPattern, text)
        THEN <<"Highlight leadership and management experience when relevant.">>
        ELSE <<>>)

\* the message of the structure check for a section
SectionRec(section) ==
    "Consider adding a '" \o Join(section) \o "' section to your resume."

\* recommendations['structure']: the loop over sections
StructureRecs(text) ==
    LET absent == SelectSeq(sections,
                            LAMBDA s : ~re_search_word(<<s>>, text, TRUE))
    IN  [n \in 1..Len(absent) |-> SectionRec(absent[n])]

\* the message of the content check for a weak verb
WeakVerbRec(weak) ==
    "Replace weak verbs like '" \o Join(weak) \o "' with stronger action verbs."

\* recommendations['content']
\* (faulty variant: the last weak verb found is named)
M_ContentRecs(text) ==
    LET found == get_weak_verbs(text)
    IN  IF found # <<>> THEN <<WeakVerbRec(found[Len(found)][1])>> ELSE <<>>
\* (as in the source)
ContentRecs(text) ==
    LET found == get_weak_verbs(text)
    IN  IF found # <<>> THEN <<WeakVerbRec(found[1][1])>> ELSE <<>>

generate_ats_recommendations(text) ==
    [formatting |-> FormattingRecs(text),
     keywords   |-> KeywordRecs(text),
     structure  |-> StructureRecs(text),
     content    |-> ContentRecs(text)]

\* the arguments of SpecRecs
MaxRecPieces == 2
MaxRecNewlines == 9

RecPieces ==
    { <<"2", "0", "2", "0">>,
      <<"1", "2", "3", "4", "5", " ", "x", "2", "0", "2", "0">>,
      <<"P", "y", "t", "h", "o", "n", " ">>,
      <<"p", "y", "t", "h", "o", "n", " ", "C", "+", "+">>,
      <<"T", "e", "a", "m", " ">>,
      <<"m", "a", "n", "a", "g", "e", "m", "e", "n", "t">>,
      <<"E", "X", "P", "E", "R", "I", "E", "N", "C", "E", " ", "e", "d", "u", "c", "a", "t", "i", "o", "n">>,
      <<"S", "k", "i", "l", "l", "s", ",", " ", "S", "u", "m", "m", "a", "r", "y">>,
      <<"S", "k", "i", "l", "l", "s", "e", "t", " ", "d", "i", "d", " ">>,
      <<"H", "e", "l", "p", "e", "d", ",", " ", "w", "o", "r", "k", "e", "d">>,
      <<"1", "9", "9", "9", " ", "S", "Q", "L", " ", "P", "r", "o", "j", "e", "c", "t", ":", " ", "E", "x", "p", "e", "r", "i", "e", "n", "c", "e", " ", "E", "d", "u", "c", "a", "t", "i", "o", "n", " ", "S", "k", "i", "l", "l", "s", " ", "S", "u", "m", "m", "a", "r", "y">> }

\* one line, one line fewer than the 10 of the check, and 10 lines or more
RecResumeTexts ==
    { Concat(body) \o Repeat("\n", n) :
        body \in SeqsUpTo(RecPieces, MaxRecPieces),
        n \in {0} \cup (8..MaxRecNewlines) }

InitRecs ==
    /\ pc = "start"
    /\ resume_text \in RecResumeTexts
    /\ job_description = NotCalled
    /\ candidate_profile = NotCalled
    /\ template = NotCalled
    /\ name = NotCalled
    /\ position = NotCalled
    /\ experience = NotCalled
    /\ score_metrics = NotCalled
    /\ match_score = NotCalled
    /\ suggestions = NotCalled
    /\ missing = NotCalled
    /\ cover_letter = NotCalled
    /\ resume_profile = NotCalled
    /\ recommendations = NotCalled
    /\ FetchNotCalled

GenerateAtsRecommendations ==
    /\ pc = "start"
    /\ recommendations' = generate_ats_recommendations(resume_text)
    /\ pc' = "done"
    /\ UNCHANGED <<resume_text, job_description, candidate_profile, letter_args,
                   score_metrics, match_score, suggestions, missing,
                   cover_letter, resume_profile, fetch_vars>>

NextRecs == GenerateAtsRecommendations

SpecRecs == InitRecs /\ [][NextRecs]_vars

\* the text has a number of exactly four digits: four digits with no word
\* character before or after them
HasFourDigitNumber(text) ==
    \E i \in 1..(Len(text) - 3) :
        /\ \A k \in i..(i + 3) : text[k] \in DigitSet
        /\ i = 1 \/ ~IsWordChar(text[i - 1])
        /\ i + 3 = Len(text) \/ ~IsWordChar(text[i + 4])

\* the rules of each category, in the order of the source: TRUE where the
\* rule triggers on the text
Rules(text) ==
    [formatting |->
        << Cardinality({i \in 1..Len(text) : text[i] = "\n"}) + 1 < 10,
           ~HasFourDigitNumber(text) >>,
     keywords |->
        << \A n \in 1..Len(TechPattern) : ~KeywordOccurs(TechPattern[n], text),
           \A n \in 1..Len(LeadershipPattern) :
              ~KeywordOccurs(LeadershipPattern[n], text) >>,
     structure |->
        [n \in 1..Len(sections) |-> ~OccursAsWholeWord(lower(sections[n]), text)],
     content |->
        << \E n \in 1..Len(weak_verbs) : OccursAsWholeWord(weak_verbs[n][1], text) >>]

\* the first weak verb, in the order of declaration, that occurs in the text
FirstWeakVerb(text) ==
    LET n == SetMin({k \in 1..Len(weak_verbs) :
                        OccursAsWholeWord(weak_verbs[k][1], text)})
    IN  weak_verbs[n][1]

\* C13: generate_ats_recommendations returns a mapping with exactly the
\* categories formatting, keywords, structure and content; each category
\* holds one message for each of its rules that triggered, none twice, and is
\* empty exactly when none of them triggered; the content message names the
\* first weak verb in the order of declaration.
C13_Recommendations ==
    pc = "done" =>
        /\ DOMAIN recommendations = {"formatting", "keywords", "structure", "content"}
        /\ \A category \in DOMAIN recommendations :
              LET list == recommendations[category]
                  rules == Rules(resume_text)[category]
              IN  /\ Len(list) = Cardinality({n \in DOMAIN rules : rules[n]})
                  /\ \A m, n \in DOMAIN list : list[m] = list[n] => m = n
                  /\ list = <<>> <=> \A n \in DOMAIN rules : ~rules[n]
        /\ \A n \in 1..Len(sections) :
              Rules(resume_text).structure[n]
                 <=> \E m \in DOMAIN recommendations.structure :
                        recommendations.structure[m] = SectionRec(sections[n])
        /\ recommendations.content # <<>> =>
              recommendations.content = <<WeakVerbRec(FirstWeakVerb(resume_text))>>

\* C13, its case: a text on which no rule triggers; every category is
\* present and empty
C13_Witness ==
    /\ pc = "done"
    /\ DOMAIN recommendations = {"formatting", "keywords", "structure", "content"}
    /\ \A category \in DOMAIN recommendations : recommendations[category] = <<>>

-----------------------------------------------------------------------------
(* fetch_jobs_arbeitsagentur (src/MyCareerAssist.py) *)
(* The umlauts of the texts are written ae, ue; the pictographs that open  *)
(* the two messages are left out.                                          *)

search_url(query_, location_) ==
    "https://www.arbeitsagentur.de/jobsuche/?was=" \o query_ \o "&wo=" \o location_

\* jobs: the one record the function builds once requests.get has returned
PlaceholderJobs(query_, location_) ==
    << [title       |-> query_ \o " - Treffer auf Arbeitsagentur.de",
        company     |-> "Bundesagentur fuer Arbeit",
        location    |-> location_,
        url         |-> search_url(query_, location_),
        description |-> "Bitte besuchen Sie die Arbeitsagentur-Website fuer aktuelle Stellenangebote"] >>

\* the classes of requests.exceptions that requests.get raises: those the
\* clause 'except requests.exceptions.Timeout' catches, and all of them,
\* which the clause 'except requests.exceptions.RequestException' catches
Timeouts == {"ConnectTimeout", "ReadTimeout"}
RequestExceptions ==
    Timeouts \cup {"ConnectionError", "SSLError", "TooManyRedirects"}

\* the except clauses, for the exception e raised in the try block: what the
\* function returns and reports, or the exception it lets through
\* (faulty variant: the clause for RequestException is missing)
M_Except(e) ==
    IF e.class \in Timeouts
    THEN [jobs    |-> <<>>,
          message |-> "Anfrage zeitueberschritten. Bitte spaeter erneut versuchen."]
    ELSE [raised |-> e.class]
\* (as in the source)
Except(e) ==
    IF e.class \in Timeouts
    THEN [jobs    |-> <<>>,
          message |-> "Anfrage zeitueberschritten. Bitte spaeter erneut versuchen."]
    ELSE IF e.class \in RequestExceptions
    THEN [jobs    |-> <<>>,
          message |-> "Fehler bei der Jobsuche: " \o e.str]
    ELSE [raised |-> e.class]

\* what the server may answer: the function reads none of it
Responses ==
    [status_code : {200, 404, 503},
     text : {"", "<html>Jobsuche</html>", "{\"stellenangebote\": []}"}]

InitFetch ==
    /\ pc = "start"
    /\ resume_text = NotCalled
    /\ job_description = NotCalled
    /\ candidate_profile = NotCalled
    /\ template = NotCalled
    /\ name = NotCalled
    /\ position = NotCalled
    /\ experience = NotCalled
    /\ score_metrics = NotCalled
    /\ match_score = NotCalled
    /\ suggestions = NotCalled
    /\ missing = NotCalled
    /\ cover_letter = NotCalled
    /\ resume_profile = NotCalled
    /\ recommendations = NotCalled
    /\ query \in {"", "Python Entwickler", "Pflege"}
    /\ location \in {"Berlin", "Bad Homburg"}
    /\ radius \in {10, 50}
    /\ requests_get = 0
    /\ response = NotCalled
    /\ jobs = NotCalled
    /\ st_error = <<>>

\* the function up to its call of requests.get: the request is sent
RequestsGet ==
    /\ pc = "start"
    /\ requests_get' = requests_get + 1
    /\ pc' = "get"
    /\ UNCHANGED <<resume_text, job_description, candidate_profile, letter_args,
                   score_metrics, match_score, suggestions, missing,
                   cover_letter, resume_profile, recommendations,
                   query, location, radius, response, jobs, st_error>>

\* requests.get returns a response; the function returns the record
GetReturns ==
    /\ pc = "get"
    /\ response' \in Responses
    /\ jobs' = PlaceholderJobs(query, location)
    /\ pc' = "done"
    /\ UNCHANGED <<resume_text, job_description, candidate_profile, letter_args,
                   score_metrics, match_score, suggestions, missing,
                   cover_letter, resume_profile, recommendations,
                   query, location, radius, requests_get, st_error>>

\* requests.get raises; the except clauses report and return, or let through
GetRaises ==
    /\ pc = "get"
    /\ response' \in [class : RequestExceptions,
                      str : {"", "Connection refused"}]
    /\ LET handled == Except(response')
       IN  IF IsRaised(handled)
           THEN /\ jobs' = handled
                /\ st_error' = st_error
                /\ pc' = "raised"
           ELSE /\ jobs' = handled.jobs
                /\ st_error' = Append(st_error, handled.message)
                /\ pc' = "done"
    /\ UNCHANGED <<resume_text, job_description, candidate_profile, letter_args,
                   score_metrics, match_score, suggestions, missing,
                   cover_letter, resume_profile, recommendations,
                   query, location, radius, requests_get>>

NextFetch == RequestsGet \/ GetReturns \/ GetRaises

SpecFetch == InitFetch /\ [][NextFetch]_vars

=============================================================================
